---------------------------- MODULE Spec2Model ----------------------------
(***************************************************************************)
(* Model of scripts/migrate-posts.py: the frontmatter parser               *)
(* (extract_frontmatter), the transformer (transform_frontmatter), the     *)
(* serializer (format_frontmatter), slug derivation (slugify,              *)
(* get_slug_from_filename) and the driver (migrate_post, main).            *)
(*                                                                         *)
(* Python strings are TLA+ strings; a character is a one-character string. *)
(* Python indices are kept 0-based in Find and translated at each SubSeq.  *)
(***************************************************************************)
EXTENDS Integers, Sequences, FiniteSets, TLC

\* ------------------------------------------------------------------------
\* Bounds of the model
\* ------------------------------------------------------------------------

\* Largest number of frontmatter lines of a generated document.
MaxLines == 3

\* Largest number of entries under the source root.
MaxFiles == 3

\* Largest number of file-system faults (mkdir or open refused) in one run.
MaxFaults == 1

\* ------------------------------------------------------------------------
\* str methods
\* ------------------------------------------------------------------------

\* F(v) with v evaluated once, before F is entered: Python evaluates an
\* argument before the call and a local before its uses.
Bind(v, F(_)) == CHOOSE y \in {F(x) : x \in {v}} : TRUE

\* Characters str.strip() / str.rstrip() / \s treat as whitespace.
Whitespace == {" ", "\n", "\t", "\r"}

Ch(s, i) == SubSeq(s, i, i)

\* c in s
Contains(s0, c) == \E s \in {s0} : \E i \in 1..Len(s) : Ch(s, i) = c

\* s.startswith(p)
StartsWith(s0, p) == \E s \in {s0} : Len(s) >= Len(p) /\ SubSeq(s, 1, Len(p)) = p

\* s.endswith(p)
EndsWith(s0, p) ==
    \E s \in {s0} : Len(s) >= Len(p) /\ SubSeq(s, Len(s) - Len(p) + 1, Len(s)) = p

\* s.find(sub, start): 0-based index of the first occurrence at or after
\* start, -1 when there is none.
Find(s0, sub, start) ==
    Bind(s0, LAMBDA s :
      Bind({i \in start..(Len(s) - Len(sub)) : SubSeq(s, i + 1, i + Len(sub)) = sub},
           LAMBDA hits :
             IF hits = {} THEN -1 ELSE CHOOSE i \in hits : \A j \in hits : i <= j))

\* s.lstrip(cs)
RECURSIVE LStripSet(_, _)
LStripSet(s0, cs) ==
    Bind(s0, LAMBDA s :
      IF s # "" /\ Head(s) \in cs THEN LStripSet(Tail(s), cs) ELSE s)

\* s.rstrip(cs)
RECURSIVE RStripSet(_, _)
RStripSet(s0, cs) ==
    Bind(s0, LAMBDA s :
      IF s # "" /\ Ch(s, Len(s)) \in cs
      THEN RStripSet(SubSeq(s, 1, Len(s) - 1), cs)
      ELSE s)

\* s.strip(cs)
StripSet(s, cs) == RStripSet(LStripSet(s, cs), cs)

\* s.strip()
Strip(s) == StripSet(s, Whitespace)

\* s.rstrip()
RStrip(s) == RStripSet(s, Whitespace)

\* s.split(sep) for a one-character separator: always at least one piece.
RECURSIVE Split(_, _)
Split(s0, sep) ==
    Bind(s0, LAMBDA s :
      Bind(Find(s, sep, 0), LAMBDA i :
        IF i = -1 THEN <<s>>
        ELSE <<SubSeq(s, 1, i)>> \o Split(SubSeq(s, i + 2, Len(s)), sep)))

\* sep.join(parts)
RECURSIVE Join(_, _)
Join(parts0, sep) ==
    Bind(parts0, LAMBDA parts :
      IF parts = <<>> THEN ""
      ELSE IF Len(parts) = 1 THEN parts[1]
      ELSE parts[1] \o sep \o Join(Tail(parts), sep))

\* s.partition(sep): the text before and after the first sep (the whole text
\* and "" when sep is absent).
Partition(s0, sep) ==
    Bind(s0, LAMBDA s :
      Bind(Find(s, sep, 0), LAMBDA i :
        IF i = -1 THEN <<s, "">>
        ELSE <<SubSeq(s, 1, i), SubSeq(s, i + Len(sep) + 1, Len(s))>>))

\* s.replace(old, new) for a one-character old.
RECURSIVE Replace(_, _, _)
Replace(s0, old, new) ==
    Bind(s0, LAMBDA s :
      IF s = "" THEN ""
      ELSE (IF Head(s) = old THEN new ELSE Head(s)) \o Replace(Tail(s), old, new))

\* ------------------------------------------------------------------------
\* Values and mappings
\* ------------------------------------------------------------------------

\* A frontmatter value: a str, a list of str or a bool (runtime-typed in the
\* source, tagged here).
StrV(s) == [t |-> "str", v |-> s]

ListV(l) == [t |-> "list", v |-> l]

BoolV(b) == [t |-> "bool", v |-> b]

\* Python truthiness of a value.
Truthy(x0) ==
    \E x \in {x0} :
        CASE x.t = "str" -> x.v # ""
          [] x.t = "list" -> x.v # <<>>
          [] x.t = "bool" -> x.v

\* A dict: the sequence of its items in insertion order.
Keys(d0) == Bind(d0, LAMBDA d : [i \in 1..Len(d) |-> d[i].k])

\* k in d
Has(d0, k) == \E d \in {d0} : \E i \in 1..Len(d) : d[i].k = k

\* d[k]
Get(d0, k) == Bind(d0, LAMBDA d : d[CHOOSE i \in 1..Len(d) : d[i].k = k].v)

\* d[k] = x: an existing key keeps its place, a new one goes last.
Put(d0, k, x) ==
    Bind(d0, LAMBDA d :
      IF Has(d, k)
      THEN [i \in 1..Len(d) |-> IF d[i].k = k THEN [k |-> k, v |-> x] ELSE d[i]]
      ELSE Append(d, [k |-> k, v |-> x]))

\* d.get(k, default)
GetOr(d0, k, default) == Bind(d0, LAMBDA d : IF Has(d, k) THEN Get(d, k) ELSE default)

\* ------------------------------------------------------------------------
\* extract_frontmatter
\* ------------------------------------------------------------------------

Quotes == {"\"", "'"}

\* line.startswith('  - ') or line.startswith('    - ')
IsListItem(line) == StartsWith(line, "  - ") \/ StartsWith(line, "    - ")

\* ':' in line and not line.startswith(' ')
IsKeyLine(line) == Contains(line, ":") /\ ~StartsWith(line, " ")

\* line.strip().lstrip('- ').strip('"\'')
ListItemValue(line) == StripSet(LStripSet(Strip(line), {"-", " "}), Quotes)

\* [item.strip().strip('"\'') for item in items if item.strip()]
RECURSIVE InlineItems(_)
InlineItems(items0) ==
    Bind(items0, LAMBDA items :
      IF items = <<>> THEN <<>>
      ELSE Bind(Strip(Head(items)), LAMBDA item :
             (IF item # "" THEN <<StripSet(item, Quotes)>> ELSE <<>>)
                \o InlineItems(Tail(items))))

\* The parser's loop state before any line: frontmatter = {}, current_key =
\* None, current_list = None (open: current_list refers to a list).
ParserStart == [frontmatter |-> <<>>, open |-> FALSE, current_key |-> ""]

\* The value the key-line handler stores for a trimmed value text; an empty
\* text stores an empty list.
KeyValue(value0) ==
    Bind(value0, LAMBDA value :
      IF StartsWith(value, "[") /\ EndsWith(value, "]")
      THEN ListV(InlineItems(Split(SubSeq(value, 2, Len(value) - 1), ",")))
      ELSE IF StartsWith(value, "\"") /\ EndsWith(value, "\"")
      THEN StrV(SubSeq(value, 2, Len(value) - 1))
      ELSE IF StartsWith(value, "'") /\ EndsWith(value, "'")
      THEN StrV(SubSeq(value, 2, Len(value) - 1))
      ELSE IF value = "" THEN ListV(<<>>)
      ELSE StrV(value))

\* current_list.append(value): current_list is the list object stored under
\* current_key.
AppendItem(st, line) ==
    [st EXCEPT !.frontmatter =
        Put(st.frontmatter, st.current_key,
            ListV(Append(Get(st.frontmatter, st.current_key).v, ListItemValue(line)))) ]

\* Mutant of Keyed: current_list is not reset to None.
KeyedKeepsList(st, key, value) ==
    [frontmatter |-> Put(st.frontmatter, key, KeyValue(value)),
     open |-> (st.open \/ value = ""),
     current_key |-> IF value = "" THEN key ELSE st.current_key]

\* Lines 69-88 after the split: store the value, reset current_list, and
\* reopen it only for an empty value text.
Keyed(st, key, value) ==
    [frontmatter |-> Put(st.frontmatter, key, KeyValue(value)),
     open |-> (value = ""),
     current_key |-> IF value = "" THEN key ELSE st.current_key]

\* The key: value branch of the loop body: line.partition(':'), both sides
\* stripped.
KeyLine(st, line) ==
    Bind(Partition(line, ":"), LAMBDA p :
      Bind(Strip(p[1]), LAMBDA key :
        Bind(Strip(p[2]), LAMBDA value : Keyed(st, key, value))))

\* One iteration of the loop over frontmatter_str.split('\n').
ParseLine(st0, raw) ==
    Bind(st0, LAMBDA st :
      Bind(RStrip(raw), LAMBDA line :
        IF Strip(line) = "" THEN st
        ELSE IF IsListItem(line)
        THEN (IF st.open THEN AppendItem(st, line) ELSE st)
        ELSE IF IsKeyLine(line) THEN KeyLine(st, line)
        ELSE st))

\* The loop over the lines.
RECURSIVE ParseLines(_, _)
ParseLines(st, ls0) ==
    Bind(ls0, LAMBDA ls :
      IF ls = <<>> THEN st
      ELSE Bind(ParseLine(st, Head(ls)), LAMBDA nxt : ParseLines(nxt, Tail(ls))))

\* Mutant of FindClosing: the search starts at 0 and finds the opening marker.
FindClosingFromStart(text0) == Find(text0, "---", 0)

\* content.find('---', 3)
FindClosing(text0) == Find(text0, "---", 3)

\* content[3:end_idx].strip()
FrontmatterStr(text0, end_idx) == Strip(SubSeq(text0, 4, end_idx))

\* content[end_idx + 3:].strip()
BodyOf(text0, end_idx) ==
    Bind(text0, LAMBDA s : Strip(SubSeq(s, end_idx + 4, Len(s))))

\* The two early returns: ({}, content).
NoFrontmatter(text0) ==
    \E s \in {text0} : ~StartsWith(s, "---") \/ FindClosing(s) = -1

\* extract_frontmatter as a function: (frontmatter, body).
ExtractFrontmatter(text0) ==
    Bind(text0, LAMBDA s :
      IF NoFrontmatter(s)
      THEN [frontmatter |-> <<>>, body |-> s]
      ELSE Bind(FindClosing(s), LAMBDA end_idx :
             [frontmatter |->
                 ParseLines(ParserStart,
                            Split(FrontmatterStr(s, end_idx), "\n")).frontmatter,
              body |-> BodyOf(s, end_idx)]))

\* ------------------------------------------------------------------------
\* transform_frontmatter
\* ------------------------------------------------------------------------

\* Mutant of NewDescription: the old description is kept when there is one.
KeptDescription(fm) == GetOr(fm, "description", StrV("."))

\* Mutant of NewDescription: the old excerpt becomes the description.
ExcerptAsDescription(fm) == GetOr(fm, "excerpt", StrV("."))

\* new_fm['description'] = '.'
NewDescription(fm) == StrV(".")

\* if 'tags' in fm and fm['tags']
KeepTags(fm) == Has(fm, "tags") /\ Truthy(Get(fm, "tags"))

\* Mutant of WithTags: tags get a default, as title and date do.
WithTagsDefaulted(d, fm) ==
    Put(d, "tags", IF KeepTags(fm) THEN Get(fm, "tags") ELSE ListV(<<"untagged">>))

\* Lines 109-110: new_fm['tags'] = fm['tags'], only under KeepTags.
WithTags(d, fm) == IF KeepTags(fm) THEN Put(d, "tags", Get(fm, "tags")) ELSE d

TransformFrontmatter(fm0) ==
    Bind(fm0, LAMBDA fm :
      Bind(Put(<<>>, "title", GetOr(fm, "title", StrV("Untitled"))), LAMBDA t1 :
        Bind(Put(t1, "description", NewDescription(fm)), LAMBDA t2 :
          Bind(Put(t2, "date",
                   IF Has(fm, "date") THEN Get(fm, "date") ELSE StrV("2021-01-01")),
               LAMBDA t3 :
                 Bind(WithTags(t3, fm), LAMBDA t4 : Put(t4, "draft", BoolV(FALSE)))))))

\* ------------------------------------------------------------------------
\* format_frontmatter
\* ------------------------------------------------------------------------

\* f'"{v}"' for v in value
RECURSIVE QuoteAll(_)
QuoteAll(l0) ==
    Bind(l0, LAMBDA l :
      IF l = <<>> THEN <<>> ELSE <<"\"" \o Head(l) \o "\"">> \o QuoteAll(Tail(l)))

\* The isinstance(value, list) branch: an empty list emits no line.
FormatList(key, l0) ==
    Bind(l0, LAMBDA l :
      IF l # <<>> THEN <<key \o ": [" \o Join(QuoteAll(l), ", ") \o "]">> ELSE <<>>)

\* The isinstance(value, str) branch.
FormatStr(key, s0) ==
    Bind(s0, LAMBDA s :
      IF Contains(s, ":") \/ Contains(s, "\"") \/ Contains(s, "'") \/ Contains(s, "\n")
      THEN <<key \o ": \"" \o Replace(s, "\"", "\\\"") \o "\"">>
      ELSE <<key \o ": \"" \o s \o "\"">>)

\* The lines one item contributes.
FormatItem(key, x0) ==
    Bind(x0, LAMBDA x :
      CASE x.t = "list" -> FormatList(key, x.v)
        [] x.t = "bool" -> <<key \o ": " \o (IF x.v THEN "true" ELSE "false")>>
        [] x.t = "str" -> FormatStr(key, x.v))

\* for key, value in fm.items()
RECURSIVE FormatItems(_)
FormatItems(d0) ==
    Bind(d0, LAMBDA d :
      IF d = <<>> THEN <<>>
      ELSE FormatItem(d[1].k, d[1].v) \o FormatItems(Tail(d)))

FormatLines(fm) == <<"---">> \o FormatItems(fm) \o <<"---">>

FormatFrontmatter(fm) == Join(FormatLines(fm), "\n")

\* ------------------------------------------------------------------------
\* slugify, get_slug_from_filename
\* ------------------------------------------------------------------------

Uppers == "ABCDEFGHIJKLMNOPQRSTUVWXYZ"

Lowers == "abcdefghijklmnopqrstuvwxyz"

Digits == {"0", "1", "2", "3", "4", "5", "6", "7", "8", "9"}

\* \w of the re module, over the characters of the model.
WordChars ==
    {Ch(Uppers, i) : i \in 1..Len(Uppers)} \cup {Ch(Lowers, i) : i \in 1..Len(Lowers)}
        \cup Digits \cup {"_"}

LowerCh(c) ==
    IF \E i \in 1..Len(Uppers) : Ch(Uppers, i) = c
    THEN Ch(Lowers, CHOOSE i \in 1..Len(Uppers) : Ch(Uppers, i) = c)
    ELSE c

\* s.lower()
RECURSIVE Lower(_)
Lower(s0) ==
    Bind(s0, LAMBDA s : IF s = "" THEN "" ELSE LowerCh(Head(s)) \o Lower(Tail(s)))

\* re.sub(r'[^...]', '', s): drop every character outside keep.
RECURSIVE KeepOnly(_, _)
KeepOnly(s0, keep) ==
    Bind(s0, LAMBDA s :
      IF s = "" THEN ""
      ELSE (IF Head(s) \in keep THEN Head(s) ELSE "") \o KeepOnly(Tail(s), keep))

\* re.sub(r'[...]+', rep, s): each maximal run of characters of cs becomes rep.
RECURSIVE SubRuns(_, _, _)
SubRuns(s0, cs, rep) ==
    Bind(s0, LAMBDA s :
      IF s = "" THEN ""
      ELSE IF Head(s) \in cs THEN rep \o SubRuns(LStripSet(s, cs), cs, rep)
      ELSE Head(s) \o SubRuns(Tail(s), cs, rep))

\* The characters line 29 keeps: [\w\s-].
SlugChars == WordChars \cup Whitespace \cup {"-"}

\* The characters line 30 turns into a hyphen: [\s_].
SlugSeparators == Whitespace \cup {"_"}

Slugify(title) ==
    StripSet(
      SubRuns(
        SubRuns(KeepOnly(Lower(title), SlugChars), SlugSeparators, "-"),
        {"-"}, "-"),
      {"-"})

\* s.rfind(c): 0-based index of the last c, -1 when there is none.
RFind(s0, c) ==
    Bind(s0, LAMBDA s :
      Bind({i \in 1..Len(s) : Ch(s, i) = c}, LAMBDA hits :
        IF hits = {} THEN -1 ELSE (CHOOSE i \in hits : \A j \in hits : j <= i) - 1))

\* filename.rsplit('.', 1)[0]
Stem(filename) ==
    Bind(RFind(filename, "."), LAMBDA i :
      IF i = -1 THEN filename ELSE SubSeq(filename, 1, i))

\* ^\d{4}-\d{2}-\d{2}- matches at the start of name.
HasDatePrefix(name0) ==
    \E name \in {name0} :
        /\ Len(name) >= 11
        /\ \A i \in {1, 2, 3, 4, 6, 7, 9, 10} : Ch(name, i) \in Digits
        /\ \A i \in {5, 8, 11} : Ch(name, i) = "-"

GetSlugFromFilename(filename) ==
    Bind(Stem(filename), LAMBDA name :
      Slugify(IF HasDatePrefix(name) THEN SubSeq(name, 12, Len(name)) ELSE name))

\* ------------------------------------------------------------------------
\* Paths and their order
\* ------------------------------------------------------------------------

\* The characters of the model's file names in code-point order.
CodePoints == " !-.0123456789ABCDEFGHIJKLMNOPQRSTUVWXYZ_abcdefghijklmnopqrstuvwxyz"

Ord(c) == CHOOSE i \in 1..Len(CodePoints) : Ch(CodePoints, i) = c

\* a < b for str.
RECURSIVE StrLess(_, _)
StrLess(a0, b0) ==
    \E a \in {a0} : \E b \in {b0} :
        IF b = "" THEN FALSE
        ELSE IF a = "" THEN TRUE
        ELSE IF Head(a) = Head(b) THEN StrLess(Tail(a), Tail(b))
        ELSE Ord(Head(a)) < Ord(Head(b))

\* p < q for paths: their lists of parts compare as lists of str.
RECURSIVE PathLess(_, _)
PathLess(p0, q0) ==
    \E p \in {p0} : \E q \in {q0} :
        IF q = <<>> THEN FALSE
        ELSE IF p = <<>> THEN TRUE
        ELSE IF Head(p) = Head(q) THEN PathLess(Tail(p), Tail(q))
        ELSE StrLess(Head(p), Head(q))

\* Path.name
NameOf(path) == Bind(path, LAMBDA p : p[Len(p)])

\* sorted(files), by path.
RECURSIVE SortedFiles(_)
SortedFiles(fs0) ==
    Bind(fs0, LAMBDA fs :
      IF fs = {} THEN <<>>
      ELSE Bind(CHOOSE f \in fs : \A g \in fs : g = f \/ PathLess(f.path, g.path),
                LAMBDA m : <<m>> \o SortedFiles(fs \ {m})))

\* SOURCE_DIR.rglob('*.md'): the entries whose name ends in ".md".
RGlobMd(fs) == {f \in fs : EndsWith(NameOf(f.path), ".md")}

\* md_file.name.lower() == 'readme.md'
IsReadme(f) == Lower(NameOf(f.path)) = "readme.md"

\* ------------------------------------------------------------------------
\* State
\* ------------------------------------------------------------------------

VARIABLES
    \* one document through extract / transform / format
    content,        \* extract_frontmatter's argument
    pc,             \* position in the pipeline
    lines,          \* lines of frontmatter_str the loop has not reached yet
    seen,           \* lines the loop has already handled (right-stripped)
    frontmatter,    \* the dict the parser builds
    current_key,    \* key of the list current_list refers to
    current_list,   \* TRUE: current_list is frontmatter[current_key]; FALSE: None
    body,           \* the body extract_frontmatter returns
    new_fm,         \* transform_frontmatter's result
    text,           \* format_frontmatter's result
    again,          \* transform(parse(text)): the second pass over the output
    \* a run of main
    source_exists,  \* SOURCE_DIR.exists()
    tree,           \* the entries under SOURCE_DIR: records [path, kind, content]
    md_files,       \* sorted(md_files): records [path, kind, content]
    idx,            \* number of entries of the loop already passed
    success_count,
    fail_count,
    dirs,           \* directories created under TARGET_DIR (slugs)
    written,        \* files written: function from slug to the index.md content
    log,            \* one record per migrate_post call, in call order
    faults,         \* file-system faults still to come in this run
    mpc             \* position in main

pvars == <<content, pc, lines, seen, frontmatter, current_key, current_list,
           body, new_fm, text, again>>

mvars == <<source_exists, tree, md_files, idx, success_count, fail_count, dirs, written, log, faults, mpc>>

vars == <<pvars, mvars>>

\* ------------------------------------------------------------------------
\* Documents
\* ------------------------------------------------------------------------

\* Frontmatter lines a generated document is made of.
LineVocab ==
    { "title: Hi",
      "title: a\"b",
      "date: 2021-05-01",
      "tags:",
      "tags: []",
      "tags: [\"a\", 'b']",
      "  - a",
      "    - \"b\"",
      "categories: [x]",
      "description: d",
      "excerpt: e",
      "draft: true",
      " x: y" }

LineSeqs == UNION {[1..n -> LineVocab] : n \in 0..MaxLines}

FullDoc(ls) == "---\n" \o Join(ls, "\n") \o "\n---\n" \o "Body."

\* Documents with missing or misplaced markers, and a few fixed ones.
OddDocs ==
    { "",
      "Body only.",
      " ---\ntitle: Hi\n---\nB",
      "--",
      "---",
      "---\ntitle: Hi",
      "---\ntitle: Hi\n--",
      "------",
      "---title: Hi---B",
      "---\ntitle: a---b\n---\nB",
      "---\ntags:\n  - \n  - a: b\n  - c\n---\nB",
      "---\nfoo\n  - a\ntags:\n  - -b\n---\n\n  Body --- text \n",
      "---\ntags:\n  - a\ntitle: Hi\n    - b\n---\nB",
      "---\ntitle: 'a: b'\n\ndate: \"2021-05-01\"  \n---\nB",
      "---\ntitle: Hello World\ndate: 2021-05-01\ntags: [\"a\",\"b\"]\ncategories: [\"x\"]\n---\nBody text." }

Docs == {FullDoc(ls) : ls \in LineSeqs} \cup OddDocs

\* ------------------------------------------------------------------------
\* One document through the pipeline
\* ------------------------------------------------------------------------

MIdle ==
    /\ source_exists = FALSE
    /\ tree = {}
    /\ md_files = <<>>
    /\ idx = 0
    /\ success_count = 0
    /\ fail_count = 0
    /\ dirs = {}
    /\ written = <<>>
    /\ log = <<>>
    /\ faults = 0
    /\ mpc = "idle"

Init ==
    /\ content \in Docs
    /\ pc = "extract"
    /\ lines = <<>>
    /\ seen = <<>>
    /\ frontmatter = <<>>
    /\ current_key = ""
    /\ current_list = FALSE
    /\ body = ""
    /\ new_fm = <<>>
    /\ text = ""
    /\ again = <<>>
    /\ MIdle

\* extract_frontmatter, lines 37-38 and 41-43: the two early returns.
ExtractNone ==
    /\ pc = "extract"
    /\ NoFrontmatter(content)
    /\ frontmatter' = <<>>
    /\ body' = content
    /\ pc' = "extracted"
    /\ UNCHANGED <<content, lines, seen, current_key, current_list, new_fm, text, again>>
    /\ UNCHANGED mvars

\* extract_frontmatter, lines 45-53: cut the block and the body, start the loop.
ExtractBegin ==
    /\ pc = "extract"
    /\ ~NoFrontmatter(content)
    /\ LET end_idx == FindClosing(content)
       IN  /\ lines' = Split(FrontmatterStr(content, end_idx), "\n")
           /\ body' = BodyOf(content, end_idx)
    /\ frontmatter' = ParserStart.frontmatter
    /\ current_list' = ParserStart.open
    /\ current_key' = ParserStart.current_key
    /\ seen' = <<>>
    /\ pc' = "scan"
    /\ UNCHANGED <<content, new_fm, text, again>>
    /\ UNCHANGED mvars

\* One iteration of the for loop, lines 53-88.
ScanLine ==
    /\ pc = "scan"
    /\ lines # <<>>
    /\ \E st \in {ParseLine([frontmatter |-> frontmatter, open |-> current_list,
                             current_key |-> current_key], Head(lines))} :
          /\ frontmatter' = st.frontmatter
          /\ current_list' = st.open
          /\ current_key' = st.current_key
    /\ seen' = Append(seen, RStrip(Head(lines)))
    /\ lines' = Tail(lines)
    /\ UNCHANGED <<content, pc, body, new_fm, text, again>>
    /\ UNCHANGED mvars

\* Line 90: return frontmatter, body.
ExtractReturn ==
    /\ pc = "scan"
    /\ lines = <<>>
    /\ pc' = "extracted"
    /\ UNCHANGED <<content, lines, seen, frontmatter, current_key, current_list,
                   body, new_fm, text, again>>
    /\ UNCHANGED mvars

Transform ==
    /\ pc = "extracted"
    /\ new_fm' = TransformFrontmatter(frontmatter)
    /\ pc' = "transformed"
    /\ UNCHANGED <<content, lines, seen, frontmatter, current_key, current_list,
                   body, text, again>>
    /\ UNCHANGED mvars

Format ==
    /\ pc = "transformed"
    /\ text' = FormatFrontmatter(new_fm)
    /\ pc' = "formatted"
    /\ UNCHANGED <<content, lines, seen, frontmatter, current_key, current_list,
                   body, new_fm, again>>
    /\ UNCHANGED mvars

\* The serialized block parsed and transformed a second time.
Reparse ==
    /\ pc = "formatted"
    /\ again' = TransformFrontmatter(ExtractFrontmatter(text).frontmatter)
    /\ pc' = "done"
    /\ UNCHANGED <<content, lines, seen, frontmatter, current_key, current_list,
                   body, new_fm, text>>
    /\ UNCHANGED mvars

Next ==
    \/ ExtractNone
    \/ ExtractBegin
    \/ ScanLine
    \/ ExtractReturn
    \/ Transform
    \/ Format
    \/ Reparse

Spec == Init /\ [][Next]_vars

\* ------------------------------------------------------------------------
\* migrate_post
\* ------------------------------------------------------------------------

\* source_path.read_text(encoding='utf-8') raises for an entry that is a
\* directory or is not UTF-8.
ReadRaises(f) == f.kind # "text"

\* Mutant of EmptyFrontmatter: the "if not fm" check is missing.
NeverEmpty(fm) == FALSE

\* if not fm
EmptyFrontmatter(fm) == fm = <<>>

\* slugify(new_fm['title']) raises AttributeError when the title is a list.
TitleSlugRaises(new) == Get(new, "title").t # "str"

\* Mutant of MkdirRaises: exist_ok is left out, an existing directory raises.
MkdirRaisesIfExists(ds, slug, fault) == fault = "mkdir" \/ slug \in ds

\* post_dir.mkdir(parents=True, exist_ok=True) raises only when the file
\* system refuses; an existing directory is accepted.
MkdirRaises(ds, slug, fault) == fault = "mkdir"

\* target_path.write_text(...) raises when the file cannot be opened.
WriteRaises(fault) == fault = "write"

\* format_frontmatter(new_fm) + '\n\n' + body
NewContent(new, b) == FormatFrontmatter(new) \o "\n\n" \o b

\* What one call leaves behind: the value returned, how the call ended, the
\* slug it derived, the fault that struck it, and the target tree.
Outcome(result, how, slug, struck, ds, wr) ==
    [result |-> result, how |-> how, slug |-> slug, struck |-> struck,
     dirs |-> ds, written |-> wr]

\* Lines 171-181: create the directory, write index.md, return True; either
\* step may raise.
WritePost(slug, new, b, ds, wr, fault) ==
    IF MkdirRaises(ds, slug, fault)
    THEN Outcome(FALSE, "error", slug, fault, ds, wr)
    ELSE IF WriteRaises(fault)
    THEN Outcome(FALSE, "error", slug, fault, ds \cup {slug}, wr)
    ELSE Outcome(TRUE, "ok", slug, "none", ds \cup {slug},
                 Put(wr, slug, NewContent(new, b)))

\* Lines 163-169: transform, derive the slug from the file name or, when that
\* is empty, from the title.
MigrateParsed(f, ex, ds, wr, fault) ==
    Bind(TransformFrontmatter(ex.frontmatter), LAMBDA new :
      Bind(GetSlugFromFilename(NameOf(f.path)), LAMBDA s1 :
        IF s1 = "" /\ TitleSlugRaises(new)
        THEN Outcome(FALSE, "error", "", "none", ds, wr)
        ELSE Bind(IF s1 # "" THEN s1 ELSE Slugify(Get(new, "title").v), LAMBDA slug :
               WritePost(slug, new, ex.body, ds, wr, fault))))

\* migrate_post(source_path, target_dir) with the target tree (ds, wr) and the
\* file-system fault that awaits this call.
MigratePost(f, ds, wr, fault) ==
    IF ReadRaises(f) THEN Outcome(FALSE, "error", "", "none", ds, wr)
    ELSE Bind(ExtractFrontmatter(f.content), LAMBDA ex :
           IF EmptyFrontmatter(ex.frontmatter)
           THEN Outcome(FALSE, "skipped", "", "none", ds, wr)
           ELSE MigrateParsed(f, ex, ds, wr, fault))

\* ------------------------------------------------------------------------
\* main
\* ------------------------------------------------------------------------

TextFile(path, txt) == [path |-> path, kind |-> "text", content |-> txt]

\* An entry read_text cannot decode or open.
Unreadable(path) == [path |-> path, kind |-> "unreadable", content |-> ""]

\* Entries a source tree is made of.
FileVocab ==
    { TextFile(<<"a b.md">>, "---\ntitle: Hi\n---\nOne"),
      TextFile(<<"a b.md">>, "Just text."),
      TextFile(<<"2021-08-03-A_b.md">>, "---\ntitle: Hi\ntags:\n  - x\n---\n\nTwo\n"),
      Unreadable(<<"2021-08-03-A_b.md">>),
      TextFile(<<"sub", "a b.md">>, "---\ntitle: \"!\"\n---\nThree"),
      TextFile(<<"sub", "a b.md">>, "---\nfoo\n---\nFour"),
      TextFile(<<"sub", "README.md">>, "---\ntitle: Hi\n---\nReadme"),
      TextFile(<<"!.md">>, "---\ntitle: Hi\n---\nFive"),
      TextFile(<<"!.md">>, "---\ntitle: \"!\"\ndate: 2021-05-01\n---\nSix"),
      TextFile(<<"!.md">>, "---\ntitle: [x]\n---\nSeven"),
      TextFile(<<"Hi.md">>, "---\ntitle: X\n---\nEight"),
      TextFile(<<"Hi.md">>, "---\ntitle: Hi"),
      TextFile(<<"2021-01-01-.md">>, "---\ndate: 2021-01-01\n---\nNine"),
      TextFile(<<"notes.txt">>, "---\ntitle: Hi\n---\nNotes") }

\* Source trees: at most MaxFiles entries, no path twice.
Trees ==
    {t \in SUBSET FileVocab :
        /\ Cardinality(t) <= MaxFiles
        /\ \A f, g \in t : f.path = g.path => f = g}

PIdle ==
    /\ content = ""
    /\ pc = "idle"
    /\ lines = <<>>
    /\ seen = <<>>
    /\ frontmatter = <<>>
    /\ current_key = ""
    /\ current_list = FALSE
    /\ body = ""
    /\ new_fm = <<>>
    /\ text = ""
    /\ again = <<>>

MainInit ==
    /\ source_exists \in BOOLEAN
    /\ tree \in (IF source_exists THEN Trees ELSE {{}})
    /\ md_files = <<>>
    /\ idx = 0
    /\ success_count = 0
    /\ fail_count = 0
    /\ dirs = {}
    /\ written = <<>>
    /\ log = <<>>
    /\ faults = MaxFaults
    /\ mpc = "start"
    /\ PIdle

\* Lines 193-195: no source directory, main returns.
MainAbort ==
    /\ mpc = "start"
    /\ ~source_exists
    /\ mpc' = "aborted"
    /\ UNCHANGED <<source_exists, tree, md_files, idx, success_count, fail_count,
                   dirs, written, log, faults>>
    /\ UNCHANGED pvars

\* Lines 198-205: create TARGET_DIR (the directory of the empty slug), list
\* the markdown files, sort them, zero the counters.
MainScan ==
    /\ mpc = "start"
    /\ source_exists
    /\ dirs' = dirs \cup {""}
    /\ md_files' = SortedFiles(RGlobMd(tree))
    /\ idx' = 0
    /\ success_count' = 0
    /\ fail_count' = 0
    /\ mpc' = "loop"
    /\ UNCHANGED <<source_exists, tree, written, log, faults>>
    /\ UNCHANGED pvars

\* Lines 209-210: continue past a readme.
SkipReadme ==
    /\ mpc = "loop"
    /\ idx < Len(md_files)
    /\ IsReadme(md_files[idx + 1])
    /\ idx' = idx + 1
    /\ UNCHANGED <<source_exists, tree, md_files, success_count, fail_count,
                   dirs, written, log, faults, mpc>>
    /\ UNCHANGED pvars

\* Mutant of AfterCall: the exception of a call is not caught and ends the run.
AfterCallUncaught(how) == IF how = "error" THEN "crashed" ELSE "loop"

\* Lines 155/183-185: every exception of a call is caught inside migrate_post,
\* so the loop goes on whatever way the call ended.
AfterCall(how) == "loop"

\* Lines 212-215: one call of migrate_post and its tally.
Migrate ==
    /\ mpc = "loop"
    /\ idx < Len(md_files)
    /\ ~IsReadme(md_files[idx + 1])
    /\ \E fault \in {"none"} \cup (IF faults > 0 THEN {"mkdir", "write"} ELSE {}) :
       \E r \in {MigratePost(md_files[idx + 1], dirs, written, fault)} :
          /\ fault # "none" => r.struck = fault
          /\ dirs' = r.dirs
          /\ written' = r.written
          /\ success_count' = IF r.result THEN success_count + 1 ELSE success_count
          /\ fail_count' = IF r.result THEN fail_count ELSE fail_count + 1
          /\ log' = Append(log, [file |-> md_files[idx + 1], how |-> r.how,
                                 slug |-> r.slug, struck |-> r.struck])
          /\ faults' = IF r.struck = "none" THEN faults ELSE faults - 1
          /\ mpc' = AfterCall(r.how)
    /\ idx' = idx + 1
    /\ UNCHANGED <<source_exists, tree, md_files>>
    /\ UNCHANGED pvars

\* Lines 217-221: the loop is over, the summary is printed.
Summary ==
    /\ mpc = "loop"
    /\ idx = Len(md_files)
    /\ mpc' = "done"
    /\ UNCHANGED <<source_exists, tree, md_files, idx, success_count, fail_count,
                   dirs, written, log, faults>>
    /\ UNCHANGED pvars

MainNext ==
    \/ MainAbort
    \/ MainScan
    \/ SkipReadme
    \/ Migrate
    \/ Summary

\* main is one sequential loop: whenever a step is possible it is taken.
MainSpec == MainInit /\ [][MainNext]_vars /\ WF_vars(MainNext)

\* ------------------------------------------------------------------------
\* Claims about the parser, the transformer and the serializer
\* ------------------------------------------------------------------------

\* transform_frontmatter has returned.
Transformed == pc \in {"transformed", "formatted", "done"}

\* fm has a tags value that is not empty (a non-empty string or list).
HasNonEmptyTags(fm) == Has(fm, "tags") /\ Len(Get(fm, "tags").v) > 0

SchemaFields == {"title", "date", "tags", "description", "draft"}

\* Only schema fields, each a string or a list of strings.
SchemaOnly(fm) ==
    \A i \in 1..Len(fm) : fm[i].k \in SchemaFields /\ fm[i].v.t \in {"str", "list"}

\* C2: for a document with only schema fields, parsing the serialized output
\* and transforming it again yields the mapping that was serialized.
C2_RoundTrip ==
    (pc = "done" /\ SchemaOnly(frontmatter)) => again = new_fm

\* No "---" at or after (0-based) index 3.
NoLaterMarker(s) == \A i \in 4..(Len(s) - 2) : SubSeq(s, i, i + 2) # "---"

\* extract_frontmatter has returned.
Extracted == pc \in {"extracted", "transformed", "formatted", "done"}

\* C3: text that does not start with "---", or starts with it and has no
\* further "---" at or after index 3, gives an empty mapping and the original
\* text, untrimmed, as body.
C3_Passthrough ==
    (Extracted /\ (Len(content) < 3 \/ SubSeq(content, 1, 3) # "---" \/ NoLaterMarker(content)))
        => (frontmatter = <<>> /\ body = content)

\* An opening marker with no closing one has been through the parser.
C3_Witness ==
    /\ pc = "extracted"
    /\ content = "---\ntitle: Hi"

\* C4: when the parsed mapping has no tags key, or tags is the empty list,
\* the serialized output has no line for the key tags.
C4_TagOmission ==
    (pc \in {"formatted", "done"}
        /\ (~Has(frontmatter, "tags") \/ Get(frontmatter, "tags") = [t |-> "list", v |-> <<>>]))
    => LET out == Split(text, "\n")
       IN  \A i \in 1..Len(out) : ~StartsWith(out[i], "tags")

\* A mapping with a title and an empty tags list has been serialized.
C4_Witness ==
    /\ pc = "formatted"
    /\ Has(frontmatter, "title")
    /\ Has(frontmatter, "tags")
    /\ Get(frontmatter, "tags").v = <<>>

\* C5: transforming the result of transform_frontmatter again gives the same
\* mapping, tags key and key order included.
C5_Idempotent ==
    Transformed => TransformFrontmatter(new_fm) = new_fm

\* A mapping with an excerpt and non-empty tags has been transformed.
C5_Witness ==
    /\ pc = "transformed"
    /\ Has(frontmatter, "excerpt")
    /\ Has(new_fm, "tags")

\* Indices of the key lines of ls: no leading space, a colon.
KeyLinesOf(ls) == {i \in 1..Len(ls) : Contains(ls[i], ":") /\ SubSeq(ls[i], 1, 1) # " "}

LastKeyLine(ls) == ls[CHOOSE i \in KeyLinesOf(ls) : \A j \in KeyLinesOf(ls) : j <= i]

\* The most recently seen key line had an empty value.
LastKeyEmpty(ls) ==
    KeyLinesOf(ls) # {} /\ Strip(Partition(LastKeyLine(ls), ":")[2]) = ""

LastKey(ls) == Strip(Partition(LastKeyLine(ls), ":")[1])

\* d2 is d1 with one more item at the end of the list under k, and nothing
\* else changed.
AppendedUnder(d1, d2, k) ==
    /\ Keys(d2) = Keys(d1)
    /\ Has(d1, k)
    /\ Get(d2, k).t = "list"
    /\ Len(Get(d2, k).v) = Len(Get(d1, k).v) + 1
    /\ SubSeq(Get(d2, k).v, 1, Len(Get(d1, k).v)) = Get(d1, k).v
    /\ \A i \in 1..Len(d1) : d1[i].k # k => d2[i] = d1[i]

\* C9: while the lines are scanned, a list-item line (two or four spaces, then
\* "- ") is appended to the list under the most recently seen key line exactly
\* when that key line had an empty value, and otherwise changes no entry; a key
\* line leaves a list open only if its own value is empty.
C9_OpenList ==
    [][ (pc = "scan" /\ lines # <<>>) =>
          LET l == RStrip(Head(lines))
          IN  /\ (StartsWith(l, "  - ") \/ StartsWith(l, "    - ")) =>
                    IF LastKeyEmpty(seen)
                    THEN AppendedUnder(frontmatter, frontmatter', LastKey(seen))
                    ELSE frontmatter' = frontmatter
              /\ (Contains(l, ":") /\ SubSeq(l, 1, 1) # " ") =>
                    (current_list' <=> Strip(Partition(l, ":")[2]) = "")
      ]_vars

\* A list was opened and filled, closed by a scalar key line, and a later
\* list-item line was dropped.
C9_Witness ==
    /\ seen = <<"tags:", "  - a", "title: Hi", "    - b">>
    /\ Get(frontmatter, "tags").v = <<"a">>

\* ------------------------------------------------------------------------
\* Claims about migrate_post and main
\* ------------------------------------------------------------------------

\* The entries main has to attempt: markdown files not named readme.md.
ToAttempt == {f \in tree : EndsWith(NameOf(f.path), ".md") /\ Lower(NameOf(f.path)) # "readme.md"}

LoggedFiles == {log[i].file : i \in 1..Len(log)}

\* What holds of the attempts at every moment of a run.
AttemptsInOrder ==
    /\ LoggedFiles \subseteq ToAttempt
    /\ \A i, j \in 1..Len(log) : i < j => PathLess(log[i].file.path, log[j].file.path)
    /\ success_count + fail_count = Len(log)
    /\ mpc \in {"start", "loop", "done", "aborted"}
    /\ mpc = "done" =>
          /\ LoggedFiles = ToAttempt
          /\ success_count + fail_count = Cardinality(ToAttempt)

\* C6: with an existing source root every markdown file not named readme.md
\* is attempted exactly once, in sorted path order, whatever happened to the
\* files before it; the run reaches the summary, where success_count +
\* fail_count is the number of attempted files.
C6_Containment ==
    /\ []AttemptsInOrder
    /\ (mpc = "start" /\ source_exists) ~> (mpc = "done")

\* A run has ended after a call that raised, a call that skipped and a call
\* that succeeded, in that order.
C6_Witness ==
    /\ mpc = "done"
    /\ Len(log) = 3
    /\ log[1].how = "error"
    /\ log[2].how = "skipped"
    /\ log[3].how = "ok"

\* The next entry of the loop is a readable file whose parsed mapping is empty.
NextIsEmpty ==
    /\ mpc = "loop"
    /\ idx < Len(md_files)
    /\ Lower(NameOf(md_files[idx + 1].path)) # "readme.md"
    /\ md_files[idx + 1].kind = "text"
    /\ ExtractFrontmatter(md_files[idx + 1].content).frontmatter = <<>>

\* C7: a file whose parsed mapping is empty is skipped: no directory is
\* created and no file written for it, it is counted as a failure, and the
\* loop goes on to the next file.
C7_SkipEmpty ==
    [][ NextIsEmpty =>
          /\ dirs' = dirs
          /\ written' = written
          /\ fail_count' = fail_count + 1
          /\ success_count' = success_count
          /\ idx' = idx + 1
          /\ mpc' = "loop"
      ]_vars

\* A file was skipped and the file after it was migrated.
C7_Witness ==
    \E i \in 1..Len(log) :
        /\ i < Len(log)
        /\ log[i].how = "skipped"
        /\ log[i + 1].how = "ok"

ParsedOf(f) == ExtractFrontmatter(f.content)

\* f is readable, has frontmatter and a slug can be derived for it.
Derives(f) ==
    /\ f.kind = "text"
    /\ ParsedOf(f).frontmatter # <<>>
    /\ \/ GetSlugFromFilename(NameOf(f.path)) # ""
       \/ Get(TransformFrontmatter(ParsedOf(f).frontmatter), "title").t = "str"

DerivedSlug(f) ==
    IF GetSlugFromFilename(NameOf(f.path)) # ""
    THEN GetSlugFromFilename(NameOf(f.path))
    ELSE Slugify(Get(TransformFrontmatter(ParsedOf(f).frontmatter), "title").v)

\* The text migrate_post writes for f.
OutputOf(f) ==
    FormatFrontmatter(TransformFrontmatter(ParsedOf(f).frontmatter)) \o "\n\n" \o ParsedOf(f).body

\* The attempted files that derive a slug, each with its slug and its output.
Candidates ==
    {[file |-> f, slug |-> DerivedSlug(f), out |-> OutputOf(f)] :
        f \in {g \in ToAttempt : Derives(g)}}

\* No file-system fault struck any of the files fs.
Unfaulted(fs) ==
    \A i \in 1..Len(log) : log[i].file \in fs => log[i].struck = "none"

\* C8: when two distinct files with frontmatter derive the same slug in a run
\* (and the file system refuses nothing for the files of that slug), neither
\* raises, both count as successes, and at the end the target holds one
\* index.md under the slug: the output of the colliding file that is last in
\* path order.
C8_LastWins ==
    mpc = "done" =>
        /\ Cardinality({i \in 1..Len(log) : log[i].how = "ok"}) = success_count
        /\ \E cands \in {Candidates} :
             \A c1, c2 \in cands :
               LET same == {c \in cands : c.slug = c1.slug}
                   last == CHOOSE h \in same :
                              \A k \in same : k = h \/ PathLess(k.file.path, h.file.path)
               IN  (c1 # c2 /\ c1.slug = c2.slug /\ Unfaulted({c.file : c \in same}))
                   => /\ \A i \in 1..Len(log) :
                            log[i].file \in {c1.file, c2.file} => log[i].how = "ok"
                      /\ Cardinality({i \in 1..Len(written) : written[i].k = c1.slug}) = 1
                      /\ Get(written, c1.slug) = last.out

\* A run has ended in which two files with different outputs derived one slug.
C8_Witness ==
    /\ mpc = "done"
    /\ \E c1, c2 \in Candidates :
          /\ c1.slug = c2.slug
          /\ c1.out # c2.out
          /\ Unfaulted({c1.file, c2.file})
          /\ Len(log) = 2

\* C10: every file reported as a success was written under a non-empty slug,
\* in its own sub-directory, never to index.md in the target root itself.
C10_OwnDirectory ==
    /\ \A i \in 1..Len(log) : log[i].how = "ok" => log[i].slug # ""
    /\ ~Has(written, "")

=============================================================================
